---- MODULE Spec2Model ----
(***************************************************************************)
(* seymour-cli: the client of the seymour feed aggregator.                 *)
(*                                                                         *)
(* One invocation of main (src/main.rs) is modelled: the configuration is  *)
(* loaded, the subcommand is dispatched to cmd_unread or to                *)
(* cmd_list_subscriptions, and the chosen function drives one strictly     *)
(* sequential request/reply session with the server.  Every await point    *)
(* of the two functions is one action.  The server is the environment:     *)
(* each receive draws what next_line()/parse() yield from ReceiveOutcomes. *)
(***************************************************************************)
EXTENDS Integers, Sequences, FiniteSets, TLC

(* ------------------------------ bounds --------------------------------- *)
\* The most items the server sends between a start delimiter and EndList.
MaxItems == 2
\* Item ids the server hands out are 1..MaxId.
MaxId == 2

Ids == 1..MaxId
Titles == {"t1", "t2"}
FeedUrls == {"gemini://feed"}
Urls == {"a.gmi", "b.gmi"}
Users == {"alice"}

(* ------------------------ protocol vocabulary -------------------------- *)
\* seymour_protocol::Command, the variants the client constructs.
Command ==
    [cmd : {"User"}, username : Users]
        \cup [cmd : {"ListUnread", "ListSubscriptions"}]
        \cup [cmd : {"MarkRead"}, id : Ids]

\* seymour_protocol::Response, the variants the client matches on.
Response ==
    [variant : {"AckUser", "StartEntryList", "StartSubscriptionList",
                "EndList", "AckMarkRead"}]
        \cup [variant : {"Entry"}, id : Ids, feed_url : FeedUrls,
              url : Urls, title : Titles]
        \cup [variant : {"Subscription"}, id : Ids, url : Urls]

\* What one call of receive can yield: a parsed Response, or one of its three
\* errors: next_line() fails (IoError), the stream has ended (NoLine,
\* "no line from server"), or the line does not parse (ParseError).
ReceiveErrors == {"IoError", "NoLine", "ParseError"}
ReceiveOutcomes == Response \cup [variant : ReceiveErrors]

\* struct Entry, built from a Response::Entry in cmd_unread.
EntryOf(response) ==
    [id |-> response.id,
     title |-> response.title,
     full_url |-> response.feed_url \o "/" \o response.url]

\* struct Subscription, built from a Response::Subscription.
SubscriptionOf(response) == [id |-> response.id, url |-> response.url]

(* ------------------------------- state --------------------------------- *)
VARIABLES
    subcommand,      \* Args.subcommand: "Unread" or "ListSubscriptions"
    no_mark_read,    \* the --no-mark-read flag of Unread
    pc,              \* where the invocation stands
    error,           \* the error the invocation ended with, "none" if none
    connected,       \* whether connect() has opened the stream
    sent,            \* the commands written to the writer, in order
    received,        \* what every call of receive yielded, in order
    entries,         \* cmd_unread: the Vec<Entry> accumulated
    subscriptions,   \* cmd_list_subscriptions: the Vec<Subscription>
    next_entry,      \* cmd_unread: position of `for entry in entries`
    table,           \* the rows added to the prettytable Table so far
    stdout           \* what has been printed, in order

vars == <<subcommand, no_mark_read, pc, error, connected, sent, received,
          entries, subscriptions, next_entry, table, stdout>>

Init ==
    /\ subcommand \in {"Unread", "ListSubscriptions"}
    /\ no_mark_read \in BOOLEAN
    /\ (subcommand = "ListSubscriptions" => no_mark_read = FALSE)
    /\ pc = "main"
    /\ error = "none"
    /\ connected = FALSE
    /\ sent = <<>>
    /\ received = <<>>
    /\ entries = <<>>
    /\ subscriptions = <<>>
    /\ next_entry = 1
    /\ table = <<>>
    /\ stdout = <<>>

(* ------------------------------ helpers -------------------------------- *)
\* A `?` or `return Err(..)`: the function returns the error to main, which
\* returns it; nothing else of the state changes.
Fail(kind) ==
    /\ pc' = "failed"
    /\ error' = kind
    /\ UNCHANGED <<subcommand, no_mark_read, connected, sent, received,
                   entries, subscriptions, next_entry, table, stdout>>

\* send: the command is written as one line; write_all may fail.
send(command, ok, then) ==
    IF ok
    THEN /\ sent' = Append(sent, command)
         /\ pc' = then
         /\ error' = error
    ELSE /\ sent' = sent
         /\ pc' = "failed"
         /\ error' = "io"

\* receive: the kind of error its three `?` return for an outcome.
ReceiveError(outcome) ==
    CASE outcome.variant = "IoError" -> "io"
      [] outcome.variant = "NoLine" -> "closed"
      [] outcome.variant = "ParseError" -> "parse"
      [] OTHER -> "none"

\* Mutant of push: the record goes to the front.
push_front(vec, record) == <<record>> \o vec

\* Vec::push: the record goes to the end of the vector.
push(vec, record) == Append(vec, record)

\* Mutant of mark_read_wanted: the flag is ignored.
mark_read_always == TRUE

\* `if !no_mark_read`: whether the for loop marks the entry as read.
mark_read_wanted == ~no_mark_read

\* Mutant of check_response: every parsed response is accepted.
check_response_lenient(variant, response) == TRUE

\* check_response!: the response matches the expected variant.
check_response(variant, response) == response.variant = variant

\* Mutant of ReceiveExpect: an unexpected variant is noted and the session
\* goes on as if it had been the expected one.
ReceiveExpectDowngrade(outcome, variant, then) ==
    /\ received' = Append(received, outcome)
    /\ IF ReceiveError(outcome) # "none"
       THEN pc' = "failed" /\ error' = ReceiveError(outcome)
       ELSE IF check_response(variant, outcome)
            THEN pc' = then /\ error' = error
            ELSE pc' = then /\ error' = "unexpected"

\* Mutant of ReceiveExpect: a line that does not parse is skipped and the
\* next line is awaited.
ReceiveExpectSkipMalformed(outcome, variant, then) ==
    /\ received' = Append(received, outcome)
    /\ IF outcome.variant = "ParseError"
       THEN pc' = pc /\ error' = error
       ELSE IF ReceiveError(outcome) # "none"
            THEN pc' = "failed" /\ error' = ReceiveError(outcome)
            ELSE IF check_response(variant, outcome)
                 THEN pc' = then /\ error' = error
                 ELSE pc' = "failed" /\ error' = "unexpected"

\* receive followed by check_response!($variant, response).
ReceiveExpect(outcome, variant, then) ==
    /\ received' = Append(received, outcome)
    /\ IF ReceiveError(outcome) # "none"
       THEN pc' = "failed" /\ error' = ReceiveError(outcome)
       ELSE IF check_response(variant, outcome)
            THEN pc' = then /\ error' = error
            ELSE pc' = "failed" /\ error' = "unexpected"

(* -------------------------------- main --------------------------------- *)
\* Mutant of LoadConfig: a configuration that cannot be loaded is reported
\* and the subcommand is dispatched all the same.
LoadConfigOrDefault ==
    /\ pc = "main"
    /\ \E ok \in BOOLEAN :
         /\ pc' = IF subcommand = "Unread" THEN "unread_connect"
                                             ELSE "subs_connect"
         /\ error' = IF ok THEN error ELSE "config"
         /\ UNCHANGED <<subcommand, no_mark_read, connected, sent,
                        received, entries, subscriptions, next_entry,
                        table, stdout>>

\* main: the configuration file is found, read and parsed, or main returns
\* the error; then the subcommand is dispatched.
LoadConfig ==
    /\ pc = "main"
    /\ \E ok \in BOOLEAN :
         IF ok
         THEN /\ pc' = IF subcommand = "Unread" THEN "unread_connect"
                                                  ELSE "subs_connect"
              /\ UNCHANGED <<subcommand, no_mark_read, error, connected, sent,
                             received, entries, subscriptions, next_entry,
                             table, stdout>>
         ELSE Fail("config")

\* connect: resolve the address and open the stream, or fail.
connect(then) ==
    \E ok \in BOOLEAN :
        IF ok
        THEN /\ connected' = TRUE
             /\ pc' = then
             /\ UNCHANGED <<subcommand, no_mark_read, error, sent, received,
                            entries, subscriptions, next_entry, table, stdout>>
        ELSE Fail("connect")

(* ----------------------------- cmd_unread ------------------------------ *)
UnreadConnect ==
    /\ pc = "unread_connect"
    /\ connect("unread_send_user")

UnreadSendUser ==
    /\ pc = "unread_send_user"
    /\ \E ok \in BOOLEAN, username \in Users :
         send([cmd |-> "User", username |-> username], ok, "unread_recv_user")
    /\ UNCHANGED <<subcommand, no_mark_read, connected, received, entries,
                   subscriptions, next_entry, table, stdout>>

\* Mutant of UnreadRecvAckUser: when the response is not AckUser the
\* User command is sent again.
UnreadRecvAckUserRetry ==
    /\ pc = "unread_recv_user"
    /\ \E outcome \in ReceiveOutcomes :
         /\ received' = Append(received, outcome)
         /\ IF ReceiveError(outcome) # "none"
            THEN pc' = "failed" /\ error' = ReceiveError(outcome)
            ELSE IF check_response("AckUser", outcome)
                 THEN pc' = "unread_send_list" /\ error' = error
                 ELSE pc' = "unread_send_user" /\ error' = error
    /\ UNCHANGED <<subcommand, no_mark_read, connected, sent, entries,
                   subscriptions, next_entry, table, stdout>>

UnreadRecvAckUser ==
    /\ pc = "unread_recv_user"
    /\ \E outcome \in ReceiveOutcomes :
         ReceiveExpect(outcome, "AckUser", "unread_send_list")
    /\ UNCHANGED <<subcommand, no_mark_read, connected, sent, entries,
                   subscriptions, next_entry, table, stdout>>

UnreadSendListUnread ==
    /\ pc = "unread_send_list"
    /\ \E ok \in BOOLEAN :
         send([cmd |-> "ListUnread"], ok, "unread_recv_start")
    /\ UNCHANGED <<subcommand, no_mark_read, connected, received, entries,
                   subscriptions, next_entry, table, stdout>>

UnreadRecvStart ==
    /\ pc = "unread_recv_start"
    /\ \E outcome \in ReceiveOutcomes :
         ReceiveExpect(outcome, "StartEntryList", "unread_loop")
    /\ UNCHANGED <<subcommand, no_mark_read, connected, sent, entries,
                   subscriptions, next_entry, table, stdout>>

\* Mutant of UnreadRecvItem: the end of the stream ends the list, as
\* EndList does.
UnreadRecvItemEofEnds ==
    /\ pc = "unread_loop"
    /\ \E outcome \in ReceiveOutcomes :
         /\ (outcome.variant = "Entry" => Len(entries) < MaxItems)
         /\ received' = Append(received, outcome)
         /\ IF ReceiveError(outcome) \notin {"none", "closed"}
            THEN /\ pc' = "failed" /\ error' = ReceiveError(outcome)
                 /\ entries' = entries
            ELSE CASE outcome.variant = "Entry" ->
                        /\ entries' = push(entries, EntryOf(outcome))
                        /\ pc' = pc /\ error' = error
                   [] outcome.variant \in {"EndList", "NoLine"} ->
                        /\ entries' = entries
                        /\ pc' = "unread_report" /\ error' = error
                   [] OTHER ->
                        /\ entries' = entries
                        /\ pc' = "failed" /\ error' = "unexpected"
    /\ UNCHANGED <<subcommand, no_mark_read, connected, sent, subscriptions,
                   next_entry, table, stdout>>

\* Mutant of UnreadRecvItem: each entry is marked as read as soon as it is
\* received, inside the listing loop.
UnreadRecvItemMarking ==
    /\ pc = "unread_loop"
    /\ \E outcome \in ReceiveOutcomes :
         /\ (outcome.variant = "Entry" => Len(entries) < MaxItems)
         /\ received' = Append(received, outcome)
         /\ IF ReceiveError(outcome) # "none"
            THEN /\ pc' = "failed" /\ error' = ReceiveError(outcome)
                 /\ entries' = entries /\ sent' = sent
            ELSE CASE outcome.variant = "Entry" ->
                        /\ entries' = push(entries, EntryOf(outcome))
                        /\ sent' = IF mark_read_wanted
                                   THEN Append(sent, [cmd |-> "MarkRead",
                                                      id |-> outcome.id])
                                   ELSE sent
                        /\ pc' = pc /\ error' = error
                   [] outcome.variant = "EndList" ->
                        /\ entries' = entries /\ sent' = sent
                        /\ pc' = "unread_report" /\ error' = error
                   [] OTHER ->
                        /\ entries' = entries /\ sent' = sent
                        /\ pc' = "failed" /\ error' = "unexpected"
    /\ UNCHANGED <<subcommand, no_mark_read, connected, subscriptions,
                   next_entry, table, stdout>>

\* One turn of the `loop` of cmd_unread: an Entry is pushed, EndList breaks,
\* anything else returns an error.
UnreadRecvItem ==
    /\ pc = "unread_loop"
    /\ \E outcome \in ReceiveOutcomes :
         /\ (outcome.variant = "Entry" => Len(entries) < MaxItems)
         /\ received' = Append(received, outcome)
         /\ IF ReceiveError(outcome) # "none"
            THEN /\ pc' = "failed" /\ error' = ReceiveError(outcome)
                 /\ entries' = entries
            ELSE CASE outcome.variant = "Entry" ->
                        /\ entries' = push(entries, EntryOf(outcome))
                        /\ pc' = pc /\ error' = error
                   [] outcome.variant = "EndList" ->
                        /\ entries' = entries
                        /\ pc' = "unread_report" /\ error' = error
                   [] OTHER ->
                        /\ entries' = entries
                        /\ pc' = "failed" /\ error' = "unexpected"
    /\ UNCHANGED <<subcommand, no_mark_read, connected, sent, subscriptions,
                   next_entry, table, stdout>>

\* Mutant of UnreadReport: the table is printed together with the count
\* line, before the for loop runs.
UnreadReportEager ==
    /\ pc = "unread_report"
    /\ IF entries = <<>>
       THEN /\ stdout' = Append(stdout, [line |-> "No new items"])
            /\ pc' = "done"
            /\ table' = table
       ELSE /\ table' = <<[titles |-> <<"url", "title">>]>>
            /\ stdout' = Append(Append(stdout, [line |-> "new item(s)",
                                                count |-> Len(entries)]),
                                [table |-> table'])
            /\ pc' = "unread_for"
    /\ UNCHANGED <<subcommand, no_mark_read, error, connected, sent, received,
                   entries, subscriptions, next_entry>>

\* Mutant of UnreadReport: the empty case prints its line and does not
\* return, as in cmd_list_subscriptions.
UnreadReportNoReturn ==
    /\ pc = "unread_report"
    /\ stdout' = Append(stdout, IF entries = <<>>
                                THEN [line |-> "No new items"]
                                ELSE [line |-> "new item(s)",
                                      count |-> Len(entries)])
    /\ table' = <<[titles |-> <<"url", "title">>]>>
    /\ pc' = "unread_for"
    /\ UNCHANGED <<subcommand, no_mark_read, error, connected, sent, received,
                   entries, subscriptions, next_entry>>

\* After the loop: "No new items" and return Ok, or the count line, and the
\* table gets its titles.
UnreadReport ==
    /\ pc = "unread_report"
    /\ IF entries = <<>>
       THEN /\ stdout' = Append(stdout, [line |-> "No new items"])
            /\ pc' = "done"
            /\ table' = table
       ELSE /\ stdout' = Append(stdout, [line |-> "new item(s)",
                                         count |-> Len(entries)])
            /\ table' = <<[titles |-> <<"url", "title">>]>>
            /\ pc' = "unread_for"
    /\ UNCHANGED <<subcommand, no_mark_read, error, connected, sent, received,
                   entries, subscriptions, next_entry>>

\* Mutant of UnreadForEntry: MarkRead is sent and the loop moves on to the
\* next entry without awaiting AckMarkRead.
UnreadForEntryPipelined ==
    /\ pc = "unread_for"
    /\ next_entry <= Len(entries)
    /\ LET entry == entries[next_entry] IN
         /\ table' = Append(table, [row |-> <<entry.full_url, entry.title>>])
         /\ next_entry' = next_entry + 1
         /\ IF mark_read_wanted
            THEN \E ok \in BOOLEAN :
                     send([cmd |-> "MarkRead", id |-> entry.id], ok,
                          "unread_for")
            ELSE UNCHANGED <<pc, error, sent>>
    /\ UNCHANGED <<subcommand, no_mark_read, connected, received, entries,
                   subscriptions, stdout>>

\* One turn of `for entry in entries`, up to its await: the row is added
\* and, unless --no-mark-read, MarkRead is sent for the entry.
UnreadForEntry ==
    /\ pc = "unread_for"
    /\ next_entry <= Len(entries)
    /\ LET entry == entries[next_entry] IN
         /\ table' = Append(table, [row |-> <<entry.full_url, entry.title>>])
         /\ IF mark_read_wanted
            THEN /\ \E ok \in BOOLEAN :
                      send([cmd |-> "MarkRead", id |-> entry.id], ok,
                           "unread_recv_ack")
                 /\ next_entry' = next_entry
            ELSE /\ next_entry' = next_entry + 1
                 /\ UNCHANGED <<pc, error, sent>>
    /\ UNCHANGED <<subcommand, no_mark_read, connected, received, entries,
                   subscriptions, stdout>>

\* Mutant of UnreadRecvAckMarkRead: the response is received and not
\* checked, so any parsed response lets the loop go on.
UnreadRecvAckMarkReadUnchecked ==
    /\ pc = "unread_recv_ack"
    /\ \E outcome \in ReceiveOutcomes :
         /\ received' = Append(received, outcome)
         /\ IF ReceiveError(outcome) # "none"
            THEN pc' = "failed" /\ error' = ReceiveError(outcome)
            ELSE pc' = "unread_for" /\ error' = error
    /\ next_entry' = IF pc' = "unread_for" THEN next_entry + 1 ELSE next_entry
    /\ UNCHANGED <<subcommand, no_mark_read, connected, sent, entries,
                   subscriptions, table, stdout>>

\* receive and check_response!(Response::AckMarkRead, response); the for
\* loop then moves on to the next entry.
UnreadRecvAckMarkRead ==
    /\ pc = "unread_recv_ack"
    /\ \E outcome \in ReceiveOutcomes :
         ReceiveExpect(outcome, "AckMarkRead", "unread_for")
    /\ next_entry' = IF pc' = "unread_for" THEN next_entry + 1 ELSE next_entry
    /\ UNCHANGED <<subcommand, no_mark_read, connected, sent, entries,
                   subscriptions, table, stdout>>

\* Mutant of UnreadPrintTable: after the for loop one more line is read,
\* and the table is printed only if the stream has ended.
UnreadPrintTableAwaitEof ==
    /\ pc = "unread_for"
    /\ next_entry > Len(entries)
    /\ \E outcome \in ReceiveOutcomes :
         /\ received' = Append(received, outcome)
         /\ IF outcome.variant = "NoLine"
            THEN /\ stdout' = Append(stdout, [table |-> table])
                 /\ pc' = "done" /\ error' = error
            ELSE /\ stdout' = stdout
                 /\ pc' = "failed" /\ error' = "unexpected"
    /\ UNCHANGED <<subcommand, no_mark_read, connected, sent, entries,
                   subscriptions, next_entry, table>>

\* Mutant of UnreadPrintTable: the end of the for loop is missed by one, so
\* the function never gets past the loop.
UnreadPrintTableOffByOne ==
    /\ pc = "unread_for"
    /\ next_entry > Len(entries) + 1
    /\ stdout' = Append(stdout, [table |-> table])
    /\ pc' = "done"
    /\ UNCHANGED <<subcommand, no_mark_read, error, connected, sent, received,
                   entries, subscriptions, next_entry, table>>

\* The for loop is over: table.printstd() and Ok(()).
UnreadPrintTable ==
    /\ pc = "unread_for"
    /\ next_entry > Len(entries)
    /\ stdout' = Append(stdout, [table |-> table])
    /\ pc' = "done"
    /\ UNCHANGED <<subcommand, no_mark_read, error, connected, sent, received,
                   entries, subscriptions, next_entry, table>>

(* ------------------------ cmd_list_subscriptions ----------------------- *)
SubsConnect ==
    /\ pc = "subs_connect"
    /\ connect("subs_send_user")

SubsSendUser ==
    /\ pc = "subs_send_user"
    /\ \E ok \in BOOLEAN, username \in Users :
         send([cmd |-> "User", username |-> username], ok, "subs_recv_user")
    /\ UNCHANGED <<subcommand, no_mark_read, connected, received, entries,
                   subscriptions, next_entry, table, stdout>>

SubsRecvAckUser ==
    /\ pc = "subs_recv_user"
    /\ \E outcome \in ReceiveOutcomes :
         ReceiveExpect(outcome, "AckUser", "subs_send_list")
    /\ UNCHANGED <<subcommand, no_mark_read, connected, sent, entries,
                   subscriptions, next_entry, table, stdout>>

\* Mutant of SubsSendListSubscriptions: the list command of cmd_unread is
\* sent instead.
SubsSendListUnread ==
    /\ pc = "subs_send_list"
    /\ \E ok \in BOOLEAN :
         send([cmd |-> "ListUnread"], ok, "subs_recv_start")
    /\ UNCHANGED <<subcommand, no_mark_read, connected, received, entries,
                   subscriptions, next_entry, table, stdout>>

SubsSendListSubscriptions ==
    /\ pc = "subs_send_list"
    /\ \E ok \in BOOLEAN :
         send([cmd |-> "ListSubscriptions"], ok, "subs_recv_start")
    /\ UNCHANGED <<subcommand, no_mark_read, connected, received, entries,
                   subscriptions, next_entry, table, stdout>>

SubsRecvStart ==
    /\ pc = "subs_recv_start"
    /\ \E outcome \in ReceiveOutcomes :
         ReceiveExpect(outcome, "StartSubscriptionList", "subs_loop")
    /\ UNCHANGED <<subcommand, no_mark_read, connected, sent, entries,
                   subscriptions, next_entry, table, stdout>>

\* Mutant of SubsRecvItem: any response that is not a Subscription ends the
\* loop, as EndList does.
SubsRecvItemLenient ==
    /\ pc = "subs_loop"
    /\ \E outcome \in ReceiveOutcomes :
         /\ (outcome.variant = "Subscription" => Len(subscriptions) < MaxItems)
         /\ received' = Append(received, outcome)
         /\ IF ReceiveError(outcome) # "none"
            THEN /\ pc' = "failed" /\ error' = ReceiveError(outcome)
                 /\ subscriptions' = subscriptions
            ELSE CASE outcome.variant = "Subscription" ->
                        /\ subscriptions' =
                               push(subscriptions, SubscriptionOf(outcome))
                        /\ pc' = pc /\ error' = error
                   [] OTHER ->
                        /\ subscriptions' = subscriptions
                        /\ pc' = "subs_report" /\ error' = error
    /\ UNCHANGED <<subcommand, no_mark_read, connected, sent, entries,
                   next_entry, table, stdout>>

\* One turn of the `loop` of cmd_list_subscriptions.
SubsRecvItem ==
    /\ pc = "subs_loop"
    /\ \E outcome \in ReceiveOutcomes :
         /\ (outcome.variant = "Subscription" => Len(subscriptions) < MaxItems)
         /\ received' = Append(received, outcome)
         /\ IF ReceiveError(outcome) # "none"
            THEN /\ pc' = "failed" /\ error' = ReceiveError(outcome)
                 /\ subscriptions' = subscriptions
            ELSE CASE outcome.variant = "Subscription" ->
                        /\ subscriptions' =
                               push(subscriptions, SubscriptionOf(outcome))
                        /\ pc' = pc /\ error' = error
                   [] outcome.variant = "EndList" ->
                        /\ subscriptions' = subscriptions
                        /\ pc' = "subs_report" /\ error' = error
                   [] OTHER ->
                        /\ subscriptions' = subscriptions
                        /\ pc' = "failed" /\ error' = "unexpected"
    /\ UNCHANGED <<subcommand, no_mark_read, connected, sent, entries,
                   next_entry, table, stdout>>

\* The rows the `for entry in subscriptions` loop adds, one per record.
SubscriptionRows(subs) == [k \in 1..Len(subs) |-> [row |-> <<subs[k].url>>]]

\* After the loop: "No subscriptions" is printed for an empty list, with no
\* return; the table is then built and printed in every case.
SubsReport ==
    /\ pc = "subs_report"
    /\ LET printed == IF subscriptions = <<>>
                      THEN Append(stdout, [line |-> "No subscriptions"])
                      ELSE stdout
           rows == <<[titles |-> <<"url">>]>> \o SubscriptionRows(subscriptions)
       IN /\ table' = rows
          /\ stdout' = Append(printed, [table |-> rows])
    /\ pc' = "done"
    /\ UNCHANGED <<subcommand, no_mark_read, error, connected, sent, received,
                   entries, subscriptions, next_entry>>

(* --------------------------- specification ----------------------------- *)
Next ==
    \/ LoadConfig
    \/ UnreadConnect
    \/ UnreadSendUser
    \/ UnreadRecvAckUser
    \/ UnreadSendListUnread
    \/ UnreadRecvStart
    \/ UnreadRecvItem
    \/ UnreadReport
    \/ UnreadForEntry
    \/ UnreadRecvAckMarkRead
    \/ UnreadPrintTable
    \/ SubsConnect
    \/ SubsSendUser
    \/ SubsRecvAckUser
    \/ SubsSendListSubscriptions
    \/ SubsRecvStart
    \/ SubsRecvItem
    \/ SubsReport

Spec == Init /\ [][Next]_vars

\* The invocation is one task that #[tokio::main] runs to completion: a
\* step that can be taken is taken.  For the receives this is the premise
\* that the server answers or closes the stream; the items it sends before
\* EndList are at most MaxItems.
FairSpec == Spec /\ WF_vars(Next)

TypeOK ==
    /\ subcommand \in {"Unread", "ListSubscriptions"}
    /\ no_mark_read \in BOOLEAN
    /\ error \in {"none", "config", "connect", "io", "closed", "parse",
                  "unexpected"}
    /\ connected \in BOOLEAN
    /\ \A i \in 1..Len(sent) : sent[i] \in Command
    /\ \A i \in 1..Len(received) : received[i] \in ReceiveOutcomes
    /\ next_entry \in 1..(Len(entries) + 1)
    /\ (pc = "failed") = (error # "none")

(* ---------------------- vocabulary of the properties ------------------- *)
Variants(resps) == [i \in 1..Len(resps) |-> resps[i].variant]
Cmds(commands) == [i \in 1..Len(commands) |-> commands[i].cmd]
IsMarkRead(command) == command.cmd = "MarkRead"
IsAckMarkRead(outcome) == outcome.variant = "AckMarkRead"
MarkReadsSent == SelectSeq(sent, IsMarkRead)
HasTable(out) == \E i \in 1..Len(out) : "table" \in DOMAIN out[i]
HasCountLine(out) ==
    \E i \in 1..Len(out) :
        "line" \in DOMAIN out[i] /\ out[i].line = "new item(s)"

\* The start delimiter and the item variant of the reply to a list command.
StartOf(command) ==
    IF command.cmd = "ListUnread" THEN "StartEntryList"
                                  ELSE "StartSubscriptionList"
ItemOf(command) ==
    IF command.cmd = "ListUnread" THEN "Entry" ELSE "Subscription"

\* The length of the complete reply to `command` at the head of `resps`,
\* 0 when resps does not start with one: AckUser for User, AckMarkRead for
\* MarkRead, the start delimiter, items and EndList for a list command.
ReplyLen(command, resps) ==
    IF resps = <<>> THEN 0
    ELSE CASE command.cmd = "User" ->
                IF resps[1].variant = "AckUser" THEN 1 ELSE 0
           [] command.cmd = "MarkRead" ->
                IF resps[1].variant = "AckMarkRead" THEN 1 ELSE 0
           [] OTHER ->
                LET ends == {j \in 2..Len(resps) :
                               /\ resps[1].variant = StartOf(command)
                               /\ resps[j].variant = "EndList"
                               /\ \A i \in 2..(j - 1) :
                                      resps[i].variant = ItemOf(command)}
                IN IF ends = {} THEN 0
                   ELSE CHOOSE j \in ends : \A k \in ends : j <= k

\* How many of the leading commands have had their complete replies
\* consumed, the replies taken from resps in order.
RECURSIVE Answered(_, _)
Answered(commands, resps) ==
    IF commands = <<>> THEN 0
    ELSE LET n == ReplyLen(Head(commands), resps)
         IN IF n = 0 THEN 0
            ELSE 1 + Answered(Tail(commands), SubSeq(resps, n + 1, Len(resps)))

(* -------------------------------- C1 ----------------------------------- *)
\* C1: at most one command is in flight: whenever k commands have been
\* sent, the complete replies to the first k-1 of them have been consumed
\* (AckUser for User, start delimiter .. EndList for a list command,
\* AckMarkRead for MarkRead), in both operations.
C1_OneCommandInFlight == Answered(sent, received) >= Len(sent) - 1

\* Four commands sent, the replies to the first three consumed.
C1_Witness ==
    /\ Cmds(sent) = <<"User", "ListUnread", "MarkRead", "MarkRead">>
    /\ Answered(sent, received) = 3
    /\ pc = "unread_recv_ack"

(* -------------------------------- C2 ----------------------------------- *)
\* C2: authentication gate: if the first thing received after User is not
\* AckUser, the session has failed and no command other than User has been
\* sent, in either operation.
C2_AuthenticationGate ==
    (received # <<>> /\ received[1].variant # "AckUser")
        => /\ pc = "failed"
           /\ Cmds(sent) = <<"User">>
           /\ Len(received) = 1

\* The start delimiter arrives where AckUser was due.
C2_Witness ==
    /\ Variants(received) = <<"StartEntryList">>
    /\ pc = "failed"
    /\ error = "unexpected"

(* -------------------------------- C3 ----------------------------------- *)
\* The response stream has the form AckUser, StartEntryList, n Entry
\* responses, EndList, possibly followed by more.
ListingOf(n) ==
    /\ Len(received) >= n + 3
    /\ received[1].variant = "AckUser"
    /\ received[2].variant = "StartEntryList"
    /\ \A k \in 1..n : received[2 + k].variant = "Entry"
    /\ received[n + 3].variant = "EndList"

\* C3: for a response stream AckUser, StartEntryList, Entry_1 .. Entry_n,
\* EndList the unread operation has accumulated exactly n records, the
\* k-th derived from the k-th Entry received: same id, same title, and
\* full_url = feed_url "/" url.
C3_EntriesInReceiptOrder ==
    \A n \in 0..Len(received) :
        (subcommand = "Unread" /\ ListingOf(n))
            => /\ Len(entries) = n
               /\ \A k \in 1..n :
                      /\ entries[k].id = received[2 + k].id
                      /\ entries[k].title = received[2 + k].title
                      /\ entries[k].full_url =
                             received[2 + k].feed_url \o "/"
                                 \o received[2 + k].url

\* Two different entries, listed and collected.
C3_Witness ==
    /\ subcommand = "Unread"
    /\ ListingOf(2)
    /\ received[3].id # received[4].id
    /\ received[3].title # received[4].title
    /\ Len(entries) = 2

(* -------------------------------- C4 ----------------------------------- *)
\* C4: with no_mark_read set, the unread operation never sends MarkRead:
\* the only commands sent are User and ListUnread.
C4_Suppression ==
    (subcommand = "Unread" /\ no_mark_read)
        => \A i \in 1..Len(sent) : sent[i].cmd \in {"User", "ListUnread"}

\* A suppressed run that listed two entries and printed its table.
C4_Witness ==
    /\ subcommand = "Unread"
    /\ no_mark_read
    /\ Len(entries) = 2
    /\ pc = "done"
    /\ HasTable(stdout)

(* -------------------------------- C5 ----------------------------------- *)
\* What was received in answer to the k-th MarkRead, if anything yet.
AckIndex(k) == Len(entries) + 3 + k

\* C5: strict acknowledgment, with mark-read enabled: the k-th MarkRead
\* carries the id of the k-th collected entry; the (k+1)-th MarkRead is
\* sent only once AckMarkRead was received for the k-th; and if the answer
\* to the k-th MarkRead is not AckMarkRead the session has failed and no
\* command follows the k-th MarkRead.
C5_StrictAcknowledgment ==
    (subcommand = "Unread" /\ ~no_mark_read)
        => LET m == Len(MarkReadsSent) IN
           /\ m <= Len(entries)
           /\ \A k \in 1..m :
                  /\ sent[2 + k] = [cmd |-> "MarkRead", id |-> entries[k].id]
                  /\ k < m => /\ Len(received) >= AckIndex(k)
                              /\ IsAckMarkRead(received[AckIndex(k)])
                  /\ (Len(received) >= AckIndex(k)
                        /\ ~IsAckMarkRead(received[AckIndex(k)]))
                       => /\ pc = "failed"
                          /\ m = k
                          /\ Len(sent) = 2 + k
                          /\ Len(received) = AckIndex(k)

\* The first of two entries is marked, its acknowledgment is replaced by
\* something else, and the second entry is never marked.
C5_Witness ==
    /\ subcommand = "Unread"
    /\ ~no_mark_read
    /\ Len(entries) = 2
    /\ Len(MarkReadsSent) = 1
    /\ Len(received) = AckIndex(1)
    /\ received[AckIndex(1)].variant = "EndList"
    /\ pc = "failed"

(* -------------------------------- C6 ----------------------------------- *)
\* Every MarkRead/AckMarkRead exchange of the session has completed: with
\* mark-read enabled each collected entry was marked and acknowledged.
MarkReadExchangesDone ==
    mark_read_wanted
        => /\ Len(MarkReadsSent) = Len(entries)
           /\ \A k \in 1..Len(entries) :
                  /\ Len(received) >= AckIndex(k)
                  /\ IsAckMarkRead(received[AckIndex(k)])

\* C6 as stated: in the unread operation nothing about the listed entries,
\* neither the item-count line nor the table, is printed before every
\* MarkRead/AckMarkRead exchange has completed.
C6_OutputAfterFullSequence ==
    (subcommand = "Unread" /\ (HasCountLine(stdout) \/ HasTable(stdout)))
        => MarkReadExchangesDone

\* C6 as amended: in the unread operation the table is printed only after
\* every MarkRead/AckMarkRead exchange has completed, and the operation is
\* then done; the item-count line is printed earlier, once EndList has
\* been received for a non-empty list and before the first MarkRead is
\* sent.
C6_TableAfterFullSequence ==
    subcommand = "Unread"
        => /\ HasTable(stdout) => (pc = "done" /\ MarkReadExchangesDone)
           /\ HasCountLine(stdout)
                 => (entries # <<>> /\ ListingOf(Len(entries)))
           /\ MarkReadsSent # <<>> => HasCountLine(stdout)

\* Two entries marked and acknowledged, then the table printed after the
\* count line.
C6_Witness ==
    /\ subcommand = "Unread"
    /\ ~no_mark_read
    /\ Len(entries) = 2
    /\ Len(stdout) = 2
    /\ stdout[1] = [line |-> "new item(s)", count |-> 2]
    /\ "table" \in DOMAIN stdout[2]
    /\ Len(stdout[2].table) = 3
    /\ pc = "done"

(* -------------------------------- C7 ----------------------------------- *)
\* C7: no partial-success reporting: when an operation has failed, at
\* whatever step, no table of entries or subscriptions has been printed.
C7_NoPartialSuccess == pc = "failed" => ~HasTable(stdout)

\* Two entries collected, the first marked, and the second MarkRead
\* answered by the end of the stream.
C7_Witness ==
    /\ pc = "failed"
    /\ error = "closed"
    /\ Len(entries) = 2
    /\ Len(MarkReadsSent) = 2
    /\ Len(table) = 3

(* -------------------------------- C8 ----------------------------------- *)
\* C8: empty unread list: after AckUser, StartEntryList, EndList the unread
\* operation has not failed, holds zero records, has sent no MarkRead and
\* printed no table, and ends having printed "No new items" alone, with
\* mark-read suppressed or not.
C8_EmptyUnread ==
    (subcommand = "Unread"
       /\ Variants(received) = <<"AckUser", "StartEntryList", "EndList">>)
        => /\ pc \in {"unread_report", "done"}
           /\ error = "none"
           /\ entries = <<>>
           /\ Cmds(sent) = <<"User", "ListUnread">>
           /\ ~HasTable(stdout)
           /\ pc = "done" => stdout = <<[line |-> "No new items"]>>

\* The empty list reported, with mark-read enabled.
C8_Witness ==
    /\ subcommand = "Unread"
    /\ ~no_mark_read
    /\ Variants(received) = <<"AckUser", "StartEntryList", "EndList">>
    /\ pc = "done"
    /\ stdout = <<[line |-> "No new items"]>>

(* -------------------------------- C9 ----------------------------------- *)
\* C9: empty subscription list: after AckUser, StartSubscriptionList,
\* EndList the list-subscriptions operation ends having printed
\* "No subscriptions" and no table.
C9_EmptySubscriptions ==
    (subcommand = "ListSubscriptions"
       /\ Variants(received) = <<"AckUser", "StartSubscriptionList", "EndList">>
       /\ pc = "done")
        => /\ subscriptions = <<>>
           /\ stdout = <<[line |-> "No subscriptions"]>>
           /\ ~HasTable(stdout)

(* -------------------------------- C10 ---------------------------------- *)
\* C10: Failed is absorbing: once a step has failed, no command is sent,
\* no line is read, nothing is printed and the session stays failed, in
\* both operations.
C10_FailedIsAbsorbing ==
    [][(pc = "failed" \/ error # "none")
          => /\ sent' = sent
             /\ received' = received
             /\ stdout' = stdout
             /\ pc' = pc
             /\ error' = error]_vars

\* A session that failed in the middle of the mark-read loop.
C10_Witness ==
    /\ pc = "failed"
    /\ error = "unexpected"
    /\ Len(entries) = 2
    /\ Len(MarkReadsSent) = 1
    /\ received[Len(received)].variant = "AckUser"

(* -------------------------------- C11 ---------------------------------- *)
HasVariant(resps, variant) ==
    \E i \in 1..Len(resps) : resps[i].variant = variant
Last(seq) == seq[Len(seq)]

\* C11: malformed line: wherever the session awaits a response, reading a
\* line that matches no response grammar fails the session with a parse
\* error, and once such a line has been read no further line is read and
\* no further command is sent.
C11_MalformedLine ==
    [][/\ (received' # received /\ Last(received').variant = "ParseError")
            => (pc' = "failed" /\ error' = "parse" /\ sent' = sent)
       /\ HasVariant(received, "ParseError")
            => (received' = received /\ sent' = sent /\ pc' = pc)]_vars

\* An unparsable line where the acknowledgment of the second MarkRead was
\* due.
C11_Witness ==
    /\ Len(MarkReadsSent) = 2
    /\ Len(received) = AckIndex(2)
    /\ Last(received).variant = "ParseError"
    /\ pc = "failed"
    /\ error = "parse"

(* -------------------------------- C12 ---------------------------------- *)
IsPrefix(s, t) == Len(s) <= Len(t) /\ s = SubSeq(t, 1, Len(s))

\* The response stream has the form AckUser, StartSubscriptionList, n
\* Subscription responses, EndList, possibly followed by more.
SubscriptionListingOf(n) ==
    /\ Len(received) >= n + 3
    /\ received[1].variant = "AckUser"
    /\ received[2].variant = "StartSubscriptionList"
    /\ \A k \in 1..n : received[2 + k].variant = "Subscription"
    /\ received[n + 3].variant = "EndList"

\* C12: the list-subscriptions operation sends User, ListSubscriptions and
\* nothing else: never MarkRead nor ListUnread, and exactly these two on a
\* successful run; its k-th record carries the id and the url of the k-th
\* Subscription response received between StartSubscriptionList and
\* EndList.
C12_ListSubscriptions ==
    subcommand = "ListSubscriptions"
        => /\ IsPrefix(Cmds(sent), <<"User", "ListSubscriptions">>)
           /\ pc = "done" => Cmds(sent) = <<"User", "ListSubscriptions">>
           /\ \A n \in 0..Len(received) :
                  SubscriptionListingOf(n)
                      => /\ Len(subscriptions) = n
                         /\ \A k \in 1..n :
                                /\ subscriptions[k].id = received[2 + k].id
                                /\ subscriptions[k].url = received[2 + k].url

\* Two different subscriptions listed and the table printed.
C12_Witness ==
    /\ subcommand = "ListSubscriptions"
    /\ SubscriptionListingOf(2)
    /\ received[3].id # received[4].id
    /\ received[3].url # received[4].url
    /\ Len(subscriptions) = 2
    /\ pc = "done"
    /\ HasTable(stdout)

(* -------------------------------- C13 ---------------------------------- *)
\* C13: configuration gates the core: when the configuration file is
\* missing, unreadable or unparsable the invocation has failed with no
\* connection opened, no command sent, no line read and nothing printed;
\* and a connection is only ever attempted by an invocation whose
\* configuration was loaded.
C13_ConfigGatesCore ==
    /\ error = "config"
         => /\ pc = "failed"
            /\ ~connected
            /\ sent = <<>>
            /\ received = <<>>
            /\ stdout = <<>>
    /\ (connected \/ error = "connect") => pc # "main"

\* main returned the configuration error.
C13_Witness ==
    /\ error = "config"
    /\ pc = "failed"
    /\ ~connected

(* -------------------------------- C15 ---------------------------------- *)
\* The listing loop was entered: AckUser and the start delimiter were
\* received.
ListingStarted(start) ==
    /\ Len(received) >= 2
    /\ received[1].variant = "AckUser"
    /\ received[2].variant = start

\* The j-th thing received was received by the listing loop (only items
\* precede it since the start delimiter) and is neither an item nor EndList.
BreaksListing(j, item) ==
    /\ \A i \in 3..(j - 1) : received[i].variant = item
    /\ received[j].variant \notin {item, "EndList"}

\* Within the listing loop anything but an item or EndList fails the
\* session on the spot.
ListingStrict(start, item) ==
    ListingStarted(start)
        => \A j \in 3..Len(received) :
               BreaksListing(j, item)
                   => /\ pc = "failed"
                      /\ Len(received) = j
                      /\ Len(sent) = 2
                      /\ stdout = <<>>

\* C15: in the listing loop of either operation every response other than
\* the operation's item variant (Entry for unread, Subscription for
\* list-subscriptions) or EndList fails the session, and the loop is left
\* normally only once EndList has been received after the items.
C15_ListingLoopStrict ==
    /\ subcommand = "Unread" => ListingStrict("StartEntryList", "Entry")
    /\ subcommand = "ListSubscriptions"
           => ListingStrict("StartSubscriptionList", "Subscription")
    /\ pc \in {"unread_report", "unread_for", "unread_recv_ack"}
           => ListingOf(Len(entries))
    /\ pc = "subs_report" => SubscriptionListingOf(Len(subscriptions))
    /\ (pc = "done" /\ subcommand = "Unread") => ListingOf(Len(entries))
    /\ (pc = "done" /\ subcommand = "ListSubscriptions")
           => SubscriptionListingOf(Len(subscriptions))

\* The list-subscriptions loop receives an Entry after one Subscription.
C15_Witness ==
    /\ subcommand = "ListSubscriptions"
    /\ Variants(received) =
           <<"AckUser", "StartSubscriptionList", "Subscription", "Entry">>
    /\ Len(subscriptions) = 1
    /\ pc = "failed"
    /\ error = "unexpected"

(* -------------------------------- C16 ---------------------------------- *)
\* C16: marking never starts before listing completes: in the unread
\* operation a MarkRead has been sent only if EndList was received after
\* StartEntryList and the entries, and every MarkRead id sent is the id of
\* an Entry response received between the two and collected.
C16_MarkAfterListing ==
    subcommand = "Unread"
        => /\ MarkReadsSent # <<>> => ListingOf(Len(entries))
           /\ \A k \in 1..Len(MarkReadsSent) :
                  \E e \in 1..Len(entries) :
                      /\ received[2 + e].variant = "Entry"
                      /\ received[2 + e].id = MarkReadsSent[k].id
                      /\ entries[e].id = MarkReadsSent[k].id

\* Two entries with different ids listed, then both marked.
C16_Witness ==
    /\ subcommand = "Unread"
    /\ ListingOf(2)
    /\ Len(MarkReadsSent) = 2
    /\ MarkReadsSent[1].id # MarkReadsSent[2].id

(* -------------------------------- C17 ---------------------------------- *)
\* A list was reported as successful: a table, or one of the two messages
\* of the empty list.
ReportsList(out) ==
    \/ HasTable(out)
    \/ \E i \in 1..Len(out) :
           /\ "line" \in DOMAIN out[i]
           /\ out[i].line \in {"No new items", "No subscriptions"}

\* C17: connection closed: wherever the session awaits a response, the end
\* of the stream fails the session with "no line from server"; it is the
\* last thing read, so it is taken neither for EndList nor for an
\* acknowledgment, and no list, shorter or not, is reported as successful.
C17_ConnectionClosed ==
    \A i \in 1..Len(received) :
        received[i].variant = "NoLine"
            => /\ i = Len(received)
               /\ pc = "failed"
               /\ error = "closed"
               /\ ~ReportsList(stdout)

\* The stream ends in the unread listing loop after one Entry, before
\* EndList.
C17_Witness ==
    /\ subcommand = "Unread"
    /\ Variants(received) =
           <<"AckUser", "StartEntryList", "Entry", "NoLine">>
    /\ Len(entries) = 1
    /\ pc = "failed"
    /\ error = "closed"
    /\ stdout = <<>>

(* -------------------------------- C18 ---------------------------------- *)
Terminated == pc \in {"done", "failed"}

\* C18: termination: when the server sends finitely many responses and
\* then answers every read by a line or by closing the stream, each
\* operation eventually reaches done or failed.
C18_Termination == <>Terminated

\* A complete unread run: two entries listed, marked and acknowledged.
C18_Witness ==
    /\ subcommand = "Unread"
    /\ ~no_mark_read
    /\ Len(entries) = 2
    /\ Len(received) = 7
    /\ Terminated
    /\ pc = "done"

(* -------------------------------- C19 ---------------------------------- *)
\* The list command of the operation.
ListCommand ==
    IF subcommand = "Unread" THEN "ListUnread" ELSE "ListSubscriptions"

\* C19: command-sequence shape: the commands sent are a prefix of User,
\* the operation's list command, MarkRead*: User only as the first
\* command, the list command only as the second, MarkRead from the third
\* on, and never more MarkRead commands than entries collected (none in
\* list-subscriptions).
C19_CommandSequenceShape ==
    /\ \A i \in 1..Len(sent) :
           sent[i].cmd = CASE i = 1 -> "User"
                           [] i = 2 -> ListCommand
                           [] OTHER -> "MarkRead"
    /\ Len(MarkReadsSent) <= Len(entries)
    /\ subcommand = "ListSubscriptions" => Len(sent) <= 2

\* The longest sequence for two entries: User, ListUnread, MarkRead,
\* MarkRead.
C19_Witness ==
    /\ Cmds(sent) = <<"User", "ListUnread", "MarkRead", "MarkRead">>
    /\ Len(entries) = 2
    /\ pc = "unread_for"
    /\ next_entry = 3

(* -------------------------------- C20 ---------------------------------- *)
\* The items collected by the operation.
ItemsCollected == Len(entries) + Len(subscriptions)

\* A mark-read exchange takes place: unread, not suppressed, n > 0.
MarkReadTakesPlace ==
    subcommand = "Unread" /\ mark_read_wanted /\ entries # <<>>

\* With n items, n + 3 responses were consumed and the last is EndList
\* when no mark-read exchange takes place, 2n + 3 and the last is
\* AckMarkRead when it does.
ExactlyConsumed ==
    IF MarkReadTakesPlace
    THEN /\ Len(received) = 2 * ItemsCollected + 3
         /\ Last(received).variant = "AckMarkRead"
    ELSE /\ Len(received) = ItemsCollected + 3
         /\ Last(received).variant = "EndList"

\* C20: exact consumption: a session that ends successfully has read
\* exactly the responses it needs, n + 3 or 2n + 3, and once it has ended
\* successfully it reads no further line and stays successful, whatever
\* the server sends afterwards.
C20_ExactConsumption ==
    [][/\ pc' = "done" => ExactlyConsumed'
       /\ pc = "done" => (received' = received /\ pc' = pc
                            /\ error' = error)]_vars

\* One entry listed, marked and acknowledged: 2 * 1 + 3 responses.
C20_Witness ==
    /\ pc = "done"
    /\ MarkReadTakesPlace
    /\ ItemsCollected = 1
    /\ Len(received) = 5
    /\ Variants(received) =
           <<"AckUser", "StartEntryList", "Entry", "EndList", "AckMarkRead">>
====
